---- MODULE Spec2Model ----
(***************************************************************************)
(* The material stock ledger of the construction-site dashboard: the        *)
(* materials and material_transactions tables, the storage operations on   *)
(* them (DatabaseStorage, the instance server/storage.ts exports, and the   *)
(* MemStorage twin with the same statements) and the HTTP routes that call  *)
(* them.  Every `await` of a storage call is one database round trip, so a  *)
(* request that makes several of them is several steps, and the steps of    *)
(* two requests interleave.                                                 *)
(*                                                                         *)
(* A materials row is modelled by all its columns; a material_transactions *)
(* row by its id, materialId, siteId, transactionType and quantity.        *)
(* Quantities are integers, which the real columns hold exactly up to 2^24 *)
(* and rounded above it.  Request bodies are JSON objects: every value     *)
(* carries its JSON type, so that a schema can reject it.  The tables of   *)
(* the other entities with a DELETE route are modelled by their ids, and   *)
(* the browser by what MaterialList renders.                               *)
(***************************************************************************)
EXTENDS Integers, Sequences, FiniteSets, TLC

\* ------------------------------------------------------------------ bounds
MaxMaterials == 2        \* materials ever created (ids 1..MaxMaterials)
MaxTransactions == 2     \* ledger entries ever created
MaxHandlers == 2         \* POST /api/material-transactions requests in flight
MaxRoundTrip == 4        \* quantities of the round-trip runs: 1..MaxRoundTrip
MaxTime == 2             \* clock readings of the timed runs: 0..MaxTime
MaxRecords == 3          \* rows ever created in the tables of the other entities
MaxSeedRuns == 2         \* server starts, each of which calls seedData once

\* ------------------------------------------------------- program constants
\* `real` columns are IEEE single precision: a 24 bit significand.
MantissaBits == 24

Pow2(n) == 2 ^ n
\* The first integer after which not every integer is a `real`: 16777216.
Big == Pow2(MantissaBits)

\* --------------------------------------------------------------- the inputs
Handlers == 1 .. MaxHandlers
\* Ids a request may name.  An id names no Material before the serial column
\* has given it out and after the row was deleted.
MaterialIds == 1 .. MaxMaterials
SiteIds == {1}
\* transaction_type is free text on the server ("'added' or 'used'" is a comment).
TransactionTypes == {"added", "used", "returned"}
\* Request quantities.  The server schema puts no sign constraint on them.
TxQuantities == {-5, 5}
MaterialQuantities == {3, Big}
PutQuantities == {-5}
MinStockLevels == {50}
\* The text columns of a Material (the values of the seeded cement row).
MaterialNames == {"Cement (OPC)"}
MaterialCategories == {"Cement"}
MaterialUnits == {"Bags"}

\* The other entities with a DELETE route (sites, workers, expenses, photos,
\* notes).
Kinds == {"sites", "workers", "expenses", "photos", "notes"}

\* The tables modelled by their ids: those of Kinds, the users, which no
\* route creates or deletes, and the attendance.
Tables == Kinds \cup {"users", "attendance"}

Undefined == [undefined |-> TRUE]
\* No seedData call is running; `run` counts the calls started so far.
SeedIdle(run) == [pc |-> "idle", run |-> run, existingSites |-> 0,
                  site |-> 0, i |-> 0]
\* The attendance form before it is opened.
FormClosed == [open |-> FALSE, status |-> "idle", attendanceRecords |-> <<>>,
               values |-> <<>>, i |-> 0, before |-> 0, request |-> Undefined,
               reply |-> 0, toast |-> "none"]
NoView == [component |-> "none"]
NoResponse == [route |-> "none", status |-> 0, body |-> Undefined]

VARIABLES
    materials,              \* table materials: id -> row
    materialTransactions,   \* table material_transactions: id -> row
    materialId,             \* next value of materials.id (serial)
    materialTransactionId,  \* next value of material_transactions.id (serial)
    pc,                     \* per handler: where its createMaterialTransaction stands
    transaction,            \* per handler: the request body it was called with
    newTransaction,         \* per handler: the row its insert returned
    material,               \* per handler: the row its getMaterial returned
    response,               \* the HTTP response the latest step sent, if any
    now,                    \* the server clock: what new Date() returns
    records,                \* per entity kind: the ids of the rows of its table
    recordId,               \* per entity kind: next value of its id (serial)
    assigned,               \* history: per entity kind, the ids ever given out
    view,                   \* what the browser rendered last
    seed,                   \* where the seedData call of the server start stands
    form,                   \* the attendance form of the browser and its request
    readAt,                 \* per handler: the clock when its getMaterial returned
    initialQuantity,        \* history: the quantity each Material was created with
    applied                 \* history: ids of the ledger rows whose call wrote a Material

storeVars == <<materials, materialTransactions, materialId, materialTransactionId>>
handlerVars == <<pc, transaction, newTransaction, material, readAt>>
\* What the material routes leave alone.
otherVars == <<now, records, recordId, assigned, view, seed, form>>
vars == <<materials, materialTransactions, materialId, materialTransactionId,
          pc, transaction, newTransaction, material, readAt, response, now,
          records, recordId, assigned, view, seed, form, initialQuantity,
          applied>>

\* ------------------------------------------------------------ real (float4)
Abs(x) == IF x < 0 THEN -x ELSE x

RECURSIVE Ulp(_)
\* Spacing of the `real` numbers around the non-negative integer a.
Ulp(a) == IF a < Big THEN 1 ELSE 2 * Ulp(a \div 2)

\* Storing an integer-valued JS number into a `real` column: round to nearest,
\* ties to the even significand.
Fround(x) ==
    LET a == Abs(x)
        u == Ulp(a)
        down == a - (a % u)
        up == down + u
        r == IF 2 * (a - down) < u THEN down
             ELSE IF 2 * (a - down) > u THEN up
             ELSE IF (down \div u) % 2 = 0 THEN down ELSE up
    IN  IF x < 0 THEN -r ELSE r

\* --------------------------------------------------------- JSON and schemas
\* A JSON value of a request body, with its type.
JsonNumber(n) == [number |-> n]
JsonString(s) == [string |-> s]
JsonBoolean(b) == [boolean |-> b]
typeof(v) == IF DOMAIN v = {"number"} THEN "number"
             ELSE IF DOMAIN v = {"boolean"} THEN "boolean" ELSE "string"
ValueOf(v) == IF typeof(v) = "number" THEN v.number
              ELSE IF typeof(v) = "boolean" THEN v.boolean ELSE v.string

\* The JSON object a client sends for the data `data`.
Json(data) ==
    [f \in DOMAIN data |->
        IF f \in {"name", "category", "unit", "transactionType"}
        THEN JsonString(data[f]) ELSE JsonNumber(data[f])]

\* createInsertSchema(materials).omit({id, lastUpdated}): a key per column,
\* typed as the column, required when the column is notNull without default.
\* There is no range constraint on any key.
insertMaterialSchema ==
    [shape |-> [siteId |-> "number", name |-> "string", category |-> "string",
                unit |-> "string", quantity |-> "number",
                minStockLevel |-> "number"],
     required |-> {"siteId", "name", "category", "unit"}]

\* createInsertSchema(materialTransactions).omit({id}); the keys notes,
\* recordedBy and date are not modelled.
insertMaterialTransactionSchema ==
    [shape |-> [materialId |-> "number", siteId |-> "number",
                transactionType |-> "string", quantity |-> "number"],
     required |-> {"materialId", "siteId", "transactionType", "quantity"}]

\* schema.partial(): every key optional.
partial(schema) == [schema EXCEPT !.required = {}]

\* schema.safeParse(body): unknown keys are stripped from the data.
safeParse(schema, body) ==
    [success |->
        /\ schema.required \subseteq DOMAIN body
        /\ \A f \in DOMAIN body \cap DOMAIN schema.shape :
              typeof(body[f]) = schema.shape[f],
     data |-> [f \in DOMAIN body \cap DOMAIN schema.shape |-> ValueOf(body[f])]]

\* ------------------------------------------------------------------ storage
\* { ...existing, ...patch }: the fields of patch override those of row.
Spread(row, patch) ==
    [f \in DOMAIN row |-> IF f \in DOMAIN patch THEN patch[f] ELSE row[f]]

\* A row as the table keeps it: the real columns hold floats.
StoredMaterial(row) ==
    [row EXCEPT !.quantity = Fround(row.quantity),
                !.minStockLevel = Fround(row.minStockLevel)]

getMaterial(id) ==
    IF id \in DOMAIN materials THEN materials[id] ELSE Undefined

\* The table after createMaterial(body) gave the row the id `id`; date is
\* what new Date() returned.  Columns the body leaves out take their default.
createMaterial(id, body, date) ==
    [i \in DOMAIN materials \cup {id} |->
        IF i = id
        THEN StoredMaterial(Spread([id |-> id, siteId |-> body.siteId,
                                    name |-> body.name,
                                    category |-> body.category,
                                    unit |-> body.unit,
                                    quantity |-> 0, minStockLevel |-> 0,
                                    lastUpdated |-> date], body))
        ELSE materials[i]]

\* The table after updateMaterial(id, patch): UPDATE ... SET patch,
\* last_updated = date WHERE id = id touches no row when there is none; date
\* is what new Date() returned when the call started.
updateMaterial(id, patch, date) ==
    IF id \in DOMAIN materials
    THEN [materials EXCEPT
            ![id] = StoredMaterial(Spread(Spread(materials[id], patch),
                                          [lastUpdated |-> date]))]
    ELSE materials

\* The table after deleteMaterial(id).
deleteMaterial(id) ==
    [i \in DOMAIN materials \ {id} |-> materials[i]]

\* The rows the query returns (their order, by date, is not modelled).
getMaterialTransactions(siteId) ==
    {materialTransactions[i] : i \in {j \in DOMAIN materialTransactions :
                                        materialTransactions[j].siteId = siteId}}

getMaterialTransactionsByMaterial(mid) ==
    {materialTransactions[i] : i \in {j \in DOMAIN materialTransactions :
                                        materialTransactions[j].materialId = mid}}

\* The row INSERT ... RETURNING gives back for the request body `body`.
InsertedTransaction(id, body) ==
    [id |-> id, materialId |-> body.materialId,
     siteId |-> body.siteId,
     transactionType |-> body.transactionType,
     quantity |-> Fround(body.quantity)]

\* Variants of NewQuantity with a slip in them; the properties below are
\* checked to tell each from the code.
NewQuantity_NoClamp(current, body) ==
    IF body.transactionType = "added" THEN current + body.quantity
    ELSE IF body.transactionType = "used" THEN current - body.quantity
    ELSE current

NewQuantity_AddedSubtracts(current, body) ==
    IF body.transactionType \in {"added", "used"}
    THEN (IF current - body.quantity < 0 THEN 0 ELSE current - body.quantity)
    ELSE current

NewQuantity_RejectOveruse(current, body) ==
    IF body.transactionType = "added" THEN current + body.quantity
    ELSE IF body.transactionType = "used"
    THEN (IF current - body.quantity < 0 THEN current
          ELSE current - body.quantity)
    ELSE current

\* The quantity createMaterialTransaction computes from the row it read.
NewQuantity(current, body) ==
    IF body.transactionType = "added"
    THEN current + body.quantity
    ELSE IF body.transactionType = "used"
    THEN (IF current - body.quantity < 0 THEN 0
          ELSE current - body.quantity)
    ELSE current

\* ------------------------------------------------------------------- bodies
\* Well-formed request bodies of POST /api/materials.
MaterialBodies ==
    {Json(b) : b \in [siteId : SiteIds, name : MaterialNames,
                      category : MaterialCategories, unit : MaterialUnits,
                      quantity : MaterialQuantities,
                      minStockLevel : MinStockLevels]}

\* Well-formed request bodies of PUT /api/materials/:id.
MaterialPatches == {Json([quantity |-> q]) : q \in PutQuantities}

\* Well-formed request bodies of POST /api/material-transactions: both signs
\* of quantity for 'added', positive quantities for the other types.
TransactionBodies ==
    {Json(b) : b \in {t \in [materialId : MaterialIds, siteId : SiteIds,
                              transactionType : TransactionTypes,
                              quantity : TxQuantities] :
                         t.quantity > 0 \/ t.transactionType = "added"}}

\* Bodies the schemas reject: a Material without the required siteId, a
\* Material patch whose quantity is a string, a transaction without quantity.
MalformedMaterialBodies ==
    {Json(b) : b \in [name : MaterialNames, category : MaterialCategories,
                      unit : MaterialUnits, quantity : {3}]}

MalformedMaterialPatches == {[quantity |-> JsonString("ten")]}

MalformedTransactionBodies ==
    {Json(b) : b \in [materialId : {1}, siteId : SiteIds,
                      transactionType : {"added"}]}

\* --------------------------------------------------------------------- Init
\* Both tables empty and their serial columns at 1, no request in flight.
Init ==
    /\ materials = <<>>
    /\ materialTransactions = <<>>
    /\ materialId = 1
    /\ materialTransactionId = 1
    /\ pc = [h \in Handlers |-> "idle"]
    /\ transaction = [h \in Handlers |-> Undefined]
    /\ newTransaction = [h \in Handlers |-> Undefined]
    /\ material = [h \in Handlers |-> Undefined]
    /\ readAt = [h \in Handlers |-> 0]
    /\ response = NoResponse
    /\ now = 0
    /\ records = [k \in Tables |-> {}]
    /\ recordId = [k \in Tables |-> 1]
    /\ assigned = [k \in Tables |-> {}]
    /\ view = NoView
    /\ seed = SeedIdle(0)
    /\ form = FormClosed
    /\ initialQuantity = <<>>
    /\ applied = {}

\* ------------------------------------------------------------------ actions
\* PostMaterial with an id that is the successor of the largest id in the
\* table instead of the next value of the serial column.
PostMaterial_MaxPlusOne(body) ==
    LET parseResult == safeParse(insertMaterialSchema, body)
        id == IF materials = <<>> THEN 1
              ELSE 1 + CHOOSE i \in DOMAIN materials :
                          \A j \in DOMAIN materials : j <= i
    IN  IF ~parseResult.success
        THEN /\ response' = [route |-> "POST /api/materials", status |-> 400,
                             body |-> Undefined]
             /\ UNCHANGED <<storeVars, handlerVars, initialQuantity, applied>>
             /\ UNCHANGED otherVars
        ELSE /\ materialId <= MaxMaterials
             /\ materials' = createMaterial(id, parseResult.data, now)
             /\ materialId' = materialId + 1
             /\ response' = [route |-> "POST /api/materials", status |-> 201,
                             body |-> materials'[id]]
             /\ initialQuantity' =
                  [i \in DOMAIN initialQuantity \cup {id} |->
                     IF i = id THEN materials'[id].quantity
                     ELSE initialQuantity[i]]
             /\ UNCHANGED <<materialTransactions, materialTransactionId,
                            handlerVars, applied>>
             /\ UNCHANGED otherVars

\* POST /api/materials
PostMaterial(body) ==
    LET parseResult == safeParse(insertMaterialSchema, body)
    IN  IF ~parseResult.success
        THEN /\ response' = [route |-> "POST /api/materials", status |-> 400,
                             body |-> Undefined]
             /\ UNCHANGED <<storeVars, handlerVars, initialQuantity, applied>>
             /\ UNCHANGED otherVars
        ELSE /\ materialId <= MaxMaterials
             /\ materials' = createMaterial(materialId, parseResult.data, now)
             /\ materialId' = materialId + 1
             /\ response' = [route |-> "POST /api/materials", status |-> 201,
                             body |-> materials'[materialId]]
             /\ initialQuantity' =
                  [i \in DOMAIN initialQuantity \cup {materialId} |->
                     IF i = materialId THEN materials'[materialId].quantity
                     ELSE initialQuantity[i]]
             /\ UNCHANGED <<materialTransactions, materialTransactionId,
                            handlerVars, applied>>
             /\ UNCHANGED otherVars

\* PutMaterial that inserts the row when the id names none.
PutMaterial_Upsert(id, body) ==
    LET parseResult == safeParse(partial(insertMaterialSchema), body)
    IN  IF ~parseResult.success
        THEN /\ response' = [route |-> "PUT /api/materials/:id", status |-> 400,
                             body |-> Undefined]
             /\ UNCHANGED <<storeVars, handlerVars, initialQuantity, applied>>
             /\ UNCHANGED otherVars
        ELSE /\ materials' =
                  IF id \in DOMAIN materials
                  THEN updateMaterial(id, parseResult.data, now)
                  ELSE createMaterial(id,
                         Spread([siteId |-> 1, name |-> "", category |-> "",
                                 unit |-> "", quantity |-> 0,
                                 minStockLevel |-> 0], parseResult.data), now)
             /\ response' = IF id \in DOMAIN materials
                            THEN [route |-> "PUT /api/materials/:id",
                                  status |-> 200, body |-> materials'[id]]
                            ELSE [route |-> "PUT /api/materials/:id",
                                  status |-> 404, body |-> Undefined]
             /\ UNCHANGED <<materialTransactions, materialId,
                            materialTransactionId, handlerVars,
                            initialQuantity, applied>>
             /\ UNCHANGED otherVars

\* PUT /api/materials/:id.  The route has one await: the request and its
\* UPDATE are one step, and the date is the clock of that step.
PutMaterial(id, body) ==
    LET parseResult == safeParse(partial(insertMaterialSchema), body)
    IN  IF ~parseResult.success
        THEN /\ response' = [route |-> "PUT /api/materials/:id", status |-> 400,
                             body |-> Undefined]
             /\ UNCHANGED <<storeVars, handlerVars, initialQuantity, applied>>
             /\ UNCHANGED otherVars
        ELSE /\ materials' = updateMaterial(id, parseResult.data, now)
             /\ response' = IF id \in DOMAIN materials
                            THEN [route |-> "PUT /api/materials/:id",
                                  status |-> 200, body |-> materials'[id]]
                            ELSE [route |-> "PUT /api/materials/:id",
                                  status |-> 404, body |-> Undefined]
             /\ UNCHANGED <<materialTransactions, materialId,
                            materialTransactionId, handlerVars,
                            initialQuantity, applied>>
             /\ UNCHANGED otherVars

\* DeleteMaterial with a cascade to the ledger.
DeleteMaterial_Cascade(id) ==
    /\ materials' = deleteMaterial(id)
    /\ materialTransactions' =
         [i \in {j \in DOMAIN materialTransactions :
                    materialTransactions[j].materialId # id} |->
            materialTransactions[i]]
    /\ response' = [route |-> "DELETE /api/materials/:id",
                    status |-> IF id \in DOMAIN materials THEN 204 ELSE 404,
                    body |-> Undefined]
    /\ UNCHANGED <<materialId, materialTransactionId, handlerVars,
                   initialQuantity, applied>>
    /\ UNCHANGED otherVars

\* DELETE /api/materials/:id
DeleteMaterial(id) ==
    /\ materials' = deleteMaterial(id)
    /\ response' = [route |-> "DELETE /api/materials/:id",
                    status |-> IF id \in DOMAIN materials THEN 204 ELSE 404,
                    body |-> Undefined]
    /\ UNCHANGED <<materialTransactions, materialId, materialTransactionId,
                   handlerVars, initialQuantity, applied>>
    /\ UNCHANGED otherVars

\* InsertTransaction with an id counter that is read but not advanced: the
\* second insert lands on the first row.
InsertTransaction_ReuseId(h, body) ==
    LET parseResult == safeParse(insertMaterialTransactionSchema, body)
        row == InsertedTransaction(materialTransactionId, parseResult.data)
    IN  /\ pc[h] = "idle"
        /\ IF ~parseResult.success
           THEN /\ response' = [route |-> "POST /api/material-transactions",
                                status |-> 400, body |-> Undefined]
                /\ UNCHANGED <<storeVars, handlerVars, initialQuantity, applied>>
                /\ UNCHANGED otherVars
           ELSE /\ materialTransactionId <= MaxTransactions
                /\ transaction' = [transaction EXCEPT ![h] = parseResult.data]
                /\ materialTransactions' =
                     [i \in DOMAIN materialTransactions \cup {row.id} |->
                         IF i = row.id THEN row ELSE materialTransactions[i]]
                /\ newTransaction' = [newTransaction EXCEPT ![h] = row]
                /\ pc' = [pc EXCEPT ![h] = "getMaterial"]
                /\ response' = NoResponse
                /\ UNCHANGED <<materials, materialId, materialTransactionId,
                               material, readAt, initialQuantity, applied>>
                /\ UNCHANGED otherVars

\* POST /api/material-transactions, up to the first await of
\* createMaterialTransaction: the body is parsed and, when the schema accepts
\* it, the INSERT runs.
InsertTransaction(h, body) ==
    LET parseResult == safeParse(insertMaterialTransactionSchema, body)
        row == InsertedTransaction(materialTransactionId, parseResult.data)
    IN  /\ pc[h] = "idle"
        /\ IF ~parseResult.success
           THEN /\ response' = [route |-> "POST /api/material-transactions",
                                status |-> 400, body |-> Undefined]
                /\ UNCHANGED <<storeVars, handlerVars, initialQuantity, applied>>
                /\ UNCHANGED otherVars
           ELSE /\ materialTransactionId <= MaxTransactions
                /\ transaction' = [transaction EXCEPT ![h] = parseResult.data]
                /\ materialTransactions' =
                     [i \in DOMAIN materialTransactions \cup {row.id} |->
                         IF i = row.id THEN row ELSE materialTransactions[i]]
                /\ newTransaction' = [newTransaction EXCEPT ![h] = row]
                /\ materialTransactionId' = materialTransactionId + 1
                /\ pc' = [pc EXCEPT ![h] = "getMaterial"]
                /\ response' = NoResponse
                /\ UNCHANGED <<materials, materialId, material, readAt,
                               initialQuantity, applied>>
                /\ UNCHANGED otherVars

\* ReadMaterial without the `if (material)` guard: the call throws on the
\* missing row and the route answers 500.
ReadMaterial_Unguarded(h) ==
    /\ pc[h] = "getMaterial"
    /\ IF getMaterial(transaction[h].materialId) = Undefined
       THEN /\ pc' = [pc EXCEPT ![h] = "idle"]
            /\ response' = [route |-> "POST /api/material-transactions",
                            status |-> 500, body |-> Undefined]
            /\ transaction' = [transaction EXCEPT ![h] = Undefined]
            /\ newTransaction' = [newTransaction EXCEPT ![h] = Undefined]
            /\ material' = [material EXCEPT ![h] = Undefined]
            /\ UNCHANGED readAt
       ELSE /\ pc' = [pc EXCEPT ![h] = "updateMaterial"]
            /\ response' = NoResponse
            /\ material' = [material EXCEPT
                                ![h] = getMaterial(transaction[h].materialId)]
            /\ readAt' = [readAt EXCEPT ![h] = now]
            /\ UNCHANGED <<transaction, newTransaction>>
    /\ UNCHANGED <<storeVars, initialQuantity, applied>>
    /\ UNCHANGED otherVars

\* createMaterialTransaction: await this.getMaterial(transaction.materialId).
\* Without a Material the call returns and the route answers 201.
ReadMaterial(h) ==
    /\ pc[h] = "getMaterial"
    /\ IF getMaterial(transaction[h].materialId) = Undefined
       THEN /\ pc' = [pc EXCEPT ![h] = "idle"]
            /\ response' = [route |-> "POST /api/material-transactions",
                            status |-> 201, body |-> newTransaction[h]]
            /\ transaction' = [transaction EXCEPT ![h] = Undefined]
            /\ newTransaction' = [newTransaction EXCEPT ![h] = Undefined]
            /\ material' = [material EXCEPT ![h] = Undefined]
            /\ UNCHANGED readAt
       ELSE /\ pc' = [pc EXCEPT ![h] = "updateMaterial"]
            /\ response' = NoResponse
            /\ material' = [material EXCEPT
                                ![h] = getMaterial(transaction[h].materialId)]
            /\ readAt' = [readAt EXCEPT ![h] = now]
            /\ UNCHANGED <<transaction, newTransaction>>
    /\ UNCHANGED <<storeVars, initialQuantity, applied>>
    /\ UNCHANGED otherVars

\* WriteQuantity as a single statement on the row (quantity = quantity + delta):
\* the new quantity is computed from the row as it is, not as it was read.
WriteQuantity_Atomic(h) ==
    /\ pc[h] = "updateMaterial"
    /\ \E date \in readAt[h] .. now :
          materials' =
            IF material[h].id \in DOMAIN materials
            THEN updateMaterial(material[h].id,
                   [quantity |-> NewQuantity(materials[material[h].id].quantity,
                                             transaction[h])], date)
            ELSE materials
    /\ pc' = [pc EXCEPT ![h] = "idle"]
    /\ response' = [route |-> "POST /api/material-transactions",
                    status |-> 201, body |-> newTransaction[h]]
    /\ transaction' = [transaction EXCEPT ![h] = Undefined]
    /\ newTransaction' = [newTransaction EXCEPT ![h] = Undefined]
    /\ material' = [material EXCEPT ![h] = Undefined]
    /\ readAt' = [readAt EXCEPT ![h] = 0]
    /\ applied' = IF material[h].id \in DOMAIN materials
                  THEN applied \cup {newTransaction[h].id} ELSE applied
    /\ UNCHANGED <<materialTransactions, materialId, materialTransactionId,
                   initialQuantity>>
    /\ UNCHANGED otherVars

\* WriteQuantity that puts the row it read back into the table, with the new
\* quantity, when the row was deleted since.
WriteQuantity_Reinsert(h) ==
    /\ pc[h] = "updateMaterial"
    /\ \E date \in readAt[h] .. now :
          materials' =
            [i \in DOMAIN materials \cup {material[h].id} |->
               IF i = material[h].id
               THEN StoredMaterial(Spread(material[h],
                      [quantity |-> NewQuantity(material[h].quantity,
                                                transaction[h]),
                       lastUpdated |-> date]))
               ELSE materials[i]]
    /\ pc' = [pc EXCEPT ![h] = "idle"]
    /\ response' = [route |-> "POST /api/material-transactions",
                    status |-> 201, body |-> newTransaction[h]]
    /\ transaction' = [transaction EXCEPT ![h] = Undefined]
    /\ newTransaction' = [newTransaction EXCEPT ![h] = Undefined]
    /\ material' = [material EXCEPT ![h] = Undefined]
    /\ readAt' = [readAt EXCEPT ![h] = 0]
    /\ applied' = applied \cup {newTransaction[h].id}
    /\ UNCHANGED <<materialTransactions, materialId, materialTransactionId,
                   initialQuantity>>
    /\ UNCHANGED otherVars

\* WriteQuantity that skips the UPDATE when the quantity it computed is the
\* quantity it read.
WriteQuantity_SkipUnchanged(h) ==
    /\ pc[h] = "updateMaterial"
    /\ \E date \in readAt[h] .. now :
          materials' =
            IF NewQuantity(material[h].quantity, transaction[h])
                 = material[h].quantity
            THEN materials
            ELSE updateMaterial(material[h].id,
                   [quantity |-> NewQuantity(material[h].quantity,
                                             transaction[h])], date)
    /\ pc' = [pc EXCEPT ![h] = "idle"]
    /\ response' = [route |-> "POST /api/material-transactions",
                    status |-> 201, body |-> newTransaction[h]]
    /\ transaction' = [transaction EXCEPT ![h] = Undefined]
    /\ newTransaction' = [newTransaction EXCEPT ![h] = Undefined]
    /\ material' = [material EXCEPT ![h] = Undefined]
    /\ readAt' = [readAt EXCEPT ![h] = 0]
    /\ applied' = IF material[h].id \in DOMAIN materials
                  THEN applied \cup {newTransaction[h].id} ELSE applied
    /\ UNCHANGED <<materialTransactions, materialId, materialTransactionId,
                   initialQuantity>>
    /\ UNCHANGED otherVars

\* createMaterialTransaction: await this.updateMaterial(material.id,
\* {quantity: newQuantity}), then the route answers 201.  updateMaterial reads
\* the clock when it is called, after getMaterial returned, and its UPDATE
\* runs in this step: the date is a clock reading between the two.
WriteQuantity(h) ==
    /\ pc[h] = "updateMaterial"
    /\ \E date \in readAt[h] .. now :
          materials' = updateMaterial(material[h].id,
            [quantity |-> NewQuantity(material[h].quantity, transaction[h])],
            date)
    /\ pc' = [pc EXCEPT ![h] = "idle"]
    /\ response' = [route |-> "POST /api/material-transactions",
                    status |-> 201, body |-> newTransaction[h]]
    /\ transaction' = [transaction EXCEPT ![h] = Undefined]
    /\ newTransaction' = [newTransaction EXCEPT ![h] = Undefined]
    /\ material' = [material EXCEPT ![h] = Undefined]
    /\ readAt' = [readAt EXCEPT ![h] = 0]
    /\ applied' = IF material[h].id \in DOMAIN materials
                  THEN applied \cup {newTransaction[h].id} ELSE applied
    /\ UNCHANGED <<materialTransactions, materialId, materialTransactionId,
                   initialQuantity>>
    /\ UNCHANGED otherVars

\* The requests on the materials and material_transactions tables.  No claim
\* checked under this specification reads the clock, which stands still.
Next ==
    \/ \E body \in MaterialBodies : PostMaterial(body)
    \/ \E id \in MaterialIds, body \in MaterialPatches : PutMaterial(id, body)
    \/ \E id \in MaterialIds : DeleteMaterial(id)
    \/ \E h \in Handlers, body \in TransactionBodies :
          InsertTransaction(h, body)
    \/ \E h \in Handlers : ReadMaterial(h)
    \/ \E h \in Handlers : WriteQuantity(h)

Spec == Init /\ [][Next]_vars

\* ------------------------------------------------------------ the round trip
\* One client, one Material: an 'added' request of q, then a 'used' request
\* of the same q, each awaited before the next, and nothing else.
RoundTripQuantities ==
    (1 .. MaxRoundTrip) \cup {Big - k : k \in 0 .. MaxRoundTrip}

InitRoundTrip ==
    /\ \E c \in RoundTripQuantities :
          /\ materials = [i \in {1} |->
                StoredMaterial([id |-> 1, siteId |-> 1, name |-> "Cement (OPC)",
                                category |-> "Cement", unit |-> "Bags",
                                quantity |-> c, minStockLevel |-> 50,
                                lastUpdated |-> 0])]
          /\ initialQuantity = [i \in {1} |-> c]
    /\ materialTransactions = <<>>
    /\ materialId = 2
    /\ materialTransactionId = 1
    /\ pc = [h \in Handlers |-> "idle"]
    /\ transaction = [h \in Handlers |-> Undefined]
    /\ newTransaction = [h \in Handlers |-> Undefined]
    /\ material = [h \in Handlers |-> Undefined]
    /\ readAt = [h \in Handlers |-> 0]
    /\ response = NoResponse
    /\ now = 0
    /\ records = [k \in Tables |-> {}]
    /\ recordId = [k \in Tables |-> 1]
    /\ assigned = [k \in Tables |-> {}]
    /\ view = NoView
    /\ seed = SeedIdle(0)
    /\ form = FormClosed
    /\ applied = {}

RoundTripAdd ==
    /\ materialTransactionId = 1
    /\ \E q \in 1 .. MaxRoundTrip :
          /\ q <= materials[1].quantity
          /\ InsertTransaction(1, Json([materialId |-> 1, siteId |-> 1,
                                        transactionType |-> "added",
                                        quantity |-> q]))

RoundTripUse ==
    /\ materialTransactionId = 2
    /\ InsertTransaction(1, Json([materialId |-> 1, siteId |-> 1,
                                  transactionType |-> "used",
                                  quantity |-> materialTransactions[1].quantity]))

NextRoundTrip ==
    \/ RoundTripAdd
    \/ RoundTripUse
    \/ ReadMaterial(1)
    \/ WriteQuantity(1)

SpecRoundTrip == InitRoundTrip /\ [][NextRoundTrip]_vars

\* ---------------------------------------------------------------- the clock
\* Time passes between two steps.
Tick ==
    /\ now < MaxTime
    /\ now' = now + 1
    /\ UNCHANGED <<storeVars, handlerVars, response, records, recordId,
                   assigned, view, seed, form, initialQuantity, applied>>

\* The requests on one Material, with the clock running: creation, PUT of a
\* quantity, DELETE, and 'added' transactions from every handler.
TimedTransactionBodies ==
    {Json([materialId |-> 1, siteId |-> 1, transactionType |-> "added",
           quantity |-> 5])}

NextTimed ==
    \/ Tick
    \/ \E body \in MaterialBodies : PostMaterial(body)
    \/ \E body \in MaterialPatches : PutMaterial(1, body)
    \/ DeleteMaterial(1)
    \/ \E h \in Handlers, body \in TimedTransactionBodies :
          InsertTransaction(h, body)
    \/ \E h \in Handlers : ReadMaterial(h)
    \/ \E h \in Handlers : WriteQuantity(h)

SpecTimed == Init /\ [][NextTimed]_vars

\* --------------------------------------------------------------- validation
\* The requests on the two tables with bodies the schemas accept and bodies
\* they reject.
NextValidation ==
    \/ \E body \in MaterialBodies \cup MalformedMaterialBodies :
          PostMaterial(body)
    \/ \E id \in MaterialIds,
          body \in MaterialPatches \cup MalformedMaterialPatches :
          PutMaterial(id, body)
    \/ \E id \in MaterialIds : DeleteMaterial(id)
    \/ \E h \in Handlers,
          body \in TimedTransactionBodies \cup MalformedTransactionBodies :
          InsertTransaction(h, body)
    \/ \E h \in Handlers : ReadMaterial(h)
    \/ \E h \in Handlers : WriteQuantity(h)

SpecValidation == Init /\ [][NextValidation]_vars

\* ------------------------------------------------------- the other entities
\* Sites, workers, expenses, photos and notes have the routes of the
\* materials (POST creates, DELETE removes) on a table of their own with a
\* serial id; their columns are not modelled.
RecordIds == 1 .. MaxRecords

RECURSIVE RowsCreated(_)
\* The number of rows the tables of `kinds` were ever given.
RowsCreated(kinds) ==
    IF kinds = {} THEN 0
    ELSE LET k == CHOOSE x \in kinds : TRUE
         IN  (recordId[k] - 1) + RowsCreated(kinds \ {k})
PostRoute == "POST /api/:kind"
RecordDeleteRoute == "DELETE /api/:kind/:id"

\* PostRecord with the id taken from the number of rows in the table.
PostRecord_CountPlusOne(kind) ==
    LET id == Cardinality(records[kind]) + 1
    IN  /\ RowsCreated(Kinds) < MaxRecords
        /\ records' = [records EXCEPT ![kind] = @ \cup {id}]
        /\ recordId' = [recordId EXCEPT ![kind] = @ + 1]
        /\ assigned' = [assigned EXCEPT ![kind] = @ \cup {id}]
        /\ response' = [route |-> PostRoute, status |-> 201,
                        body |-> [id |-> id], kind |-> kind]
        /\ UNCHANGED <<storeVars, handlerVars, now, view, seed, form,
                       initialQuantity, applied>>

\* POST /api/sites, /api/workers, /api/expenses, /api/photos, /api/notes with
\* a body its schema accepts: INSERT ... RETURNING.
PostRecord(kind) ==
    LET id == recordId[kind]
    IN  /\ RowsCreated(Kinds) < MaxRecords
        /\ records' = [records EXCEPT ![kind] = @ \cup {id}]
        /\ recordId' = [recordId EXCEPT ![kind] = @ + 1]
        /\ assigned' = [assigned EXCEPT ![kind] = @ \cup {id}]
        /\ response' = [route |-> PostRoute, status |-> 201,
                        body |-> [id |-> id], kind |-> kind]
        /\ UNCHANGED <<storeVars, handlerVars, now, view, seed, form,
                       initialQuantity, applied>>

\* DeleteRecord that answers 204 whether or not a row was deleted.
DeleteRecord_Always204(kind, id) ==
    /\ records' = [records EXCEPT ![kind] = @ \ {id}]
    /\ response' = [route |-> RecordDeleteRoute, status |-> 204,
                    body |-> Undefined, kind |-> kind, id |-> id]
    /\ UNCHANGED <<storeVars, handlerVars, now, recordId, assigned, view,
                   seed, form, initialQuantity, applied>>

\* DELETE /api/sites/:id, ... /api/notes/:id: the row count of the DELETE
\* decides between 204 and 404.
DeleteRecord(kind, id) ==
    /\ records' = [records EXCEPT ![kind] = @ \ {id}]
    /\ response' = [route |-> RecordDeleteRoute,
                    status |-> IF id \in records[kind] THEN 204 ELSE 404,
                    body |-> Undefined, kind |-> kind, id |-> id]
    /\ UNCHANGED <<storeVars, handlerVars, now, recordId, assigned, view,
                   seed, form, initialQuantity, applied>>

\* Creation and deletion on every table that has a DELETE route.
CrudMaterialBodies == {b \in MaterialBodies : b.quantity = JsonNumber(3)}

NextCrud ==
    \/ \E kind \in Kinds : PostRecord(kind)
    \/ \E kind \in Kinds, id \in RecordIds : DeleteRecord(kind, id)
    \/ \E body \in CrudMaterialBodies : PostMaterial(body)
    \/ \E id \in MaterialIds : DeleteMaterial(id)

SpecCrud == Init /\ [][NextCrud]_vars

\* ---------------------------------------------------------------- low stock
\* getLowStockMaterials with `<=` for `<`.
getLowStockMaterials_AtOrBelow(siteId) ==
    {materials[i] : i \in {j \in DOMAIN materials :
                              /\ materials[j].siteId = siteId
                              /\ materials[j].quantity <= materials[j].minStockLevel}}

\* The rows of the site whose quantity is below their minStockLevel (their
\* order is not modelled).
getLowStockMaterials(siteId) ==
    {materials[i] : i \in {j \in DOMAIN materials :
                              /\ materials[j].siteId = siteId
                              /\ materials[j].quantity < materials[j].minStockLevel}}

\* The rows of the site.
getMaterials(siteId) ==
    {materials[i] : i \in {j \in DOMAIN materials : materials[j].siteId = siteId}}

\* (material.quantity / material.minStockLevel) * 100 as JavaScript computes
\* it: a fraction, or what a division by zero gives (Infinity, -Infinity, NaN).
\* For the integers of the model the double arithmetic decides `< 40` and
\* `< 100` as the exact fraction does.
StockPercentage(m) ==
    IF m.minStockLevel # 0
    THEN [num |-> 100 * m.quantity, den |-> m.minStockLevel]
    ELSE IF m.quantity > 0 THEN [infinity |-> 1]
    ELSE IF m.quantity < 0 THEN [infinity |-> -1]
    ELSE [nan |-> TRUE]

\* x < n in JavaScript, for x a StockPercentage and n an integer.
LessThan(x, n) ==
    IF "nan" \in DOMAIN x THEN FALSE
    ELSE IF "infinity" \in DOMAIN x THEN x.infinity < 0
    ELSE IF x.den > 0 THEN x.num < n * x.den
    ELSE x.num > n * x.den

\* getStockStatus with the 'low' class starting above 0 instead of at 40%.
getStockStatus_LowAboveZero(m) ==
    IF ~LessThan(StockPercentage(m), 100) THEN "sufficient"
    ELSE IF LessThan(StockPercentage(m), 1) THEN "critical"
    ELSE "low"

\* MaterialList.getStockStatus: the label of the badge.
getStockStatus(m) ==
    IF LessThan(StockPercentage(m), 40) THEN "critical"
    ELSE IF LessThan(StockPercentage(m), 100) THEN "low"
    ELSE "sufficient"

\* The stock filter of MaterialList (the search and category filters at "all").
matchesStock(m, stockFilter) ==
    IF stockFilter = "low" THEN m.quantity < m.minStockLevel
    ELSE IF stockFilter = "sufficient" THEN m.quantity >= m.minStockLevel
    ELSE TRUE

StockFilters == {"all", "low", "sufficient"}

\* LowStockAlert: Math.min(100, Math.round((quantity / minStockLevel) * 100)).
\* Math.round rounds halves up and keeps NaN and the infinities; Math.min
\* keeps NaN and -Infinity.
AlertStockPercentage(m) ==
    LET x == StockPercentage(m)
    IN  IF "nan" \in DOMAIN x THEN x
        ELSE IF "infinity" \in DOMAIN x
        THEN (IF x.infinity > 0 THEN [num |-> 100, den |-> 1] ELSE x)
        ELSE LET n == IF x.den > 0 THEN x.num ELSE -x.num
                 d == Abs(x.den)
                 rounded == (2 * n + d) \div (2 * d)
             IN  [num |-> IF rounded > 100 THEN 100 ELSE rounded, den |-> 1]

\* LowStockAlert: const isCritical = stockPercentage < 40.
isCritical(m) == LessThan(AlertStockPercentage(m), 40)

\* The tables the stock runs start from: two Materials, of any site, quantity
\* and threshold the server stores.
StockSites == {1, 2}
StockQuantities == {-5, 0, 15, 39, 40, 79, 90, 100, 120}
StockLevels == {-5, 0, 50, 100, 200}

InitStock ==
    /\ materials \in [MaterialIds ->
            [id : MaterialIds, siteId : StockSites, name : MaterialNames,
             category : MaterialCategories, unit : MaterialUnits,
             quantity : StockQuantities, minStockLevel : StockLevels,
             lastUpdated : {0}]]
    /\ \A i \in MaterialIds : materials[i].id = i
    /\ initialQuantity = [i \in MaterialIds |-> materials[i].quantity]
    /\ materialTransactions = <<>>
    /\ materialId = MaxMaterials + 1
    /\ materialTransactionId = 1
    /\ pc = [h \in Handlers |-> "idle"]
    /\ transaction = [h \in Handlers |-> Undefined]
    /\ newTransaction = [h \in Handlers |-> Undefined]
    /\ material = [h \in Handlers |-> Undefined]
    /\ readAt = [h \in Handlers |-> 0]
    /\ response = NoResponse
    /\ now = 0
    /\ records = [k \in Tables |-> {}]
    /\ recordId = [k \in Tables |-> 1]
    /\ assigned = [k \in Tables |-> {}]
    /\ view = NoView
    /\ seed = SeedIdle(0)
    /\ form = FormClosed
    /\ applied = {}

\* GET /api/sites/:siteId/materials/low-stock
GetLowStockMaterials(siteId) ==
    /\ response' = [route |-> "GET /api/sites/:siteId/materials/low-stock",
                    status |-> 200, body |-> getLowStockMaterials(siteId),
                    siteId |-> siteId]
    /\ UNCHANGED <<storeVars, handlerVars, now, records, recordId, assigned,
                   view, seed, form, initialQuantity, applied>>

\* The browser renders MaterialList for the site: the rows of the site that
\* pass the stock filter, each with the label getStockStatus gives it.
RenderMaterialList(siteId, stockFilter) ==
    /\ view' = [component |-> "MaterialList", siteId |-> siteId,
                stockFilter |-> stockFilter,
                rows |-> {[material |-> m, label |-> getStockStatus(m)] :
                            m \in {r \in getMaterials(siteId) :
                                      matchesStock(r, stockFilter)}}]
    /\ response' = NoResponse
    /\ UNCHANGED <<storeVars, handlerVars, now, records, recordId, assigned,
                   seed, form, initialQuantity, applied>>

\* The dashboard renders LowStockAlert for the site from what its query of
\* the low-stock route returned: a row per Material, labelled 'critical' or
\* 'low'.
RenderLowStockAlert(siteId) ==
    /\ response.route = "GET /api/sites/:siteId/materials/low-stock"
    /\ response.siteId = siteId
    /\ view' = [component |-> "LowStockAlert", siteId |-> siteId,
                rows |-> {[material |-> m,
                           label |-> IF isCritical(m) THEN "critical"
                                     ELSE "low"] : m \in response.body}]
    /\ response' = NoResponse
    /\ UNCHANGED <<storeVars, handlerVars, now, records, recordId, assigned,
                   seed, form, initialQuantity, applied>>

NextStock ==
    \/ \E siteId \in StockSites : GetLowStockMaterials(siteId)
    \/ \E siteId \in StockSites : RenderLowStockAlert(siteId)
    \/ \E siteId \in StockSites, stockFilter \in StockFilters :
          RenderMaterialList(siteId, stockFilter)

SpecStock == InitStock /\ [][NextStock]_vars

\* ----------------------------------------------------------- storage errors
\* A statement the database rejects has no effect on the tables; the promise
\* of the storage call rejects, createMaterialTransaction throws and the catch
\* of the route answers 500.
FailedResponse ==
    [route |-> "POST /api/material-transactions", status |-> 500,
     body |-> Undefined]

\* POST /api/material-transactions whose INSERT is rejected.
InsertTransactionFails(h, body) ==
    /\ pc[h] = "idle"
    /\ safeParse(insertMaterialTransactionSchema, body).success
    /\ response' = FailedResponse
    /\ UNCHANGED <<storeVars, handlerVars, initialQuantity, applied>>
    /\ UNCHANGED otherVars

\* createMaterialTransaction whose getMaterial is rejected.
ReadMaterialFails(h) ==
    /\ pc[h] = "getMaterial"
    /\ pc' = [pc EXCEPT ![h] = "idle"]
    /\ response' = FailedResponse
    /\ transaction' = [transaction EXCEPT ![h] = Undefined]
    /\ newTransaction' = [newTransaction EXCEPT ![h] = Undefined]
    /\ material' = [material EXCEPT ![h] = Undefined]
    /\ UNCHANGED <<readAt, storeVars, initialQuantity, applied>>
    /\ UNCHANGED otherVars

\* WriteQuantityFails with the insert of the call undone before the 500.
WriteQuantityFails_Rollback(h) ==
    /\ pc[h] = "updateMaterial"
    /\ pc' = [pc EXCEPT ![h] = "idle"]
    /\ response' = FailedResponse
    /\ materialTransactions' =
         [i \in DOMAIN materialTransactions \ {newTransaction[h].id} |->
            materialTransactions[i]]
    /\ transaction' = [transaction EXCEPT ![h] = Undefined]
    /\ newTransaction' = [newTransaction EXCEPT ![h] = Undefined]
    /\ material' = [material EXCEPT ![h] = Undefined]
    /\ readAt' = [readAt EXCEPT ![h] = 0]
    /\ UNCHANGED <<materials, materialId, materialTransactionId,
                   initialQuantity, applied>>
    /\ UNCHANGED otherVars

\* createMaterialTransaction whose updateMaterial is rejected.
WriteQuantityFails(h) ==
    /\ pc[h] = "updateMaterial"
    /\ pc' = [pc EXCEPT ![h] = "idle"]
    /\ response' = FailedResponse
    /\ transaction' = [transaction EXCEPT ![h] = Undefined]
    /\ newTransaction' = [newTransaction EXCEPT ![h] = Undefined]
    /\ material' = [material EXCEPT ![h] = Undefined]
    /\ readAt' = [readAt EXCEPT ![h] = 0]
    /\ UNCHANGED <<storeVars, initialQuantity, applied>>
    /\ UNCHANGED otherVars

\* 'added' and 'used' requests of 5 on every Material id.
FailureTransactionBodies ==
    {Json(b) : b \in [materialId : MaterialIds, siteId : SiteIds,
                      transactionType : {"added", "used"}, quantity : {5}]}

\* The requests on the two tables, every storage call of a transaction
\* request succeeding or failing.
NextFailure ==
    \/ \E body \in CrudMaterialBodies : PostMaterial(body)
    \/ \E id \in MaterialIds : DeleteMaterial(id)
    \/ \E h \in Handlers, body \in FailureTransactionBodies :
          InsertTransaction(h, body)
    \/ \E h \in Handlers, body \in FailureTransactionBodies :
          InsertTransactionFails(h, body)
    \/ \E h \in Handlers : ReadMaterial(h)
    \/ \E h \in Handlers : ReadMaterialFails(h)
    \/ \E h \in Handlers : WriteQuantity(h)
    \/ \E h \in Handlers : WriteQuantityFails(h)

SpecFailure == Init /\ [][NextFailure]_vars


\* ------------------------------------------------------- two calls in a row
\* One client, one Material: two transaction requests, the second sent when
\* the first was answered, and nothing else.
OrderQuantities == {-5, 1, 2, 5}

OrderBodies ==
    {Json(b) : b \in [materialId : {1}, siteId : SiteIds,
                      transactionType : {"added", "used"},
                      quantity : OrderQuantities]}

OrderFirst ==
    /\ materialTransactionId = 1
    /\ \E body \in OrderBodies : InsertTransaction(1, body)

OrderSecond ==
    /\ materialTransactionId = 2
    /\ \E body \in OrderBodies : InsertTransaction(1, body)

NextOrder ==
    \/ OrderFirst
    \/ OrderSecond
    \/ ReadMaterial(1)
    \/ WriteQuantity(1)

SpecOrder == InitRoundTrip /\ [][NextOrder]_vars


\* ------------------------------------------------------ other transaction types
\* A transaction whose type is neither 'added' nor 'used'.
OtherTypeBodies ==
    {Json([materialId |-> 1, siteId |-> 1, transactionType |-> "returned",
           quantity |-> 5])}

\* The requests on one Material with the clock running: creation, PUT of a
\* quantity, and 'added' and 'returned' transactions from every handler.
NextOtherType ==
    \/ Tick
    \/ \E body \in CrudMaterialBodies : PostMaterial(body)
    \/ \E body \in MaterialPatches : PutMaterial(1, body)
    \/ \E h \in Handlers,
          body \in OtherTypeBodies \cup TimedTransactionBodies :
          InsertTransaction(h, body)
    \/ \E h \in Handlers : ReadMaterial(h)
    \/ \E h \in Handlers : WriteQuantity(h)

SpecOtherType == Init /\ [][NextOtherType]_vars


\* ---------------------------------------------------------------- two sites
\* Materials of two sites, and transaction requests that name a Material and
\* a site: the two keys of the body are independent of each other.
SiteMaterialBodies ==
    {Json(b) : b \in [siteId : StockSites, name : MaterialNames,
                      category : MaterialCategories, unit : MaterialUnits,
                      quantity : {3}, minStockLevel : MinStockLevels]}

SiteTransactionBodies ==
    {Json(b) : b \in [materialId : {1}, siteId : StockSites,
                      transactionType : {"added"}, quantity : {5}]}

NextSites ==
    \/ \E body \in SiteMaterialBodies : PostMaterial(body)
    \/ \E h \in Handlers, body \in SiteTransactionBodies :
          InsertTransaction(h, body)
    \/ \E h \in Handlers : ReadMaterial(h)
    \/ \E h \in Handlers : WriteQuantity(h)

SpecSites == Init /\ [][NextSites]_vars


\* ---------------------------------------------------------------- seedData
\* The sample rows of seedData: three Materials, two workers, two expenses.
SeedMaterials ==
    <<[name |-> "Cement (OPC)", category |-> "Cement", unit |-> "Bags",
       quantity |-> 15, minStockLevel |-> 50],
      [name |-> "Sand (Coarse)", category |-> "Sand", unit |-> "CFT",
       quantity |-> 120, minStockLevel |-> 200],
      [name |-> "Steel Rods (10mm)", category |-> "Steel", unit |-> "Kg",
       quantity |-> 850, minStockLevel |-> 500]>>
SeedWorkers == 2
SeedExpenses == 2

\* No HTTP request is answered by a step of seedData, and no transaction
\* request is touched by it.
SeedFrame ==
    /\ response' = NoResponse
    /\ UNCHANGED <<materialTransactions, materialTransactionId, handlerVars,
                   now, view, form, applied>>

\* INSERT ... RETURNING on the table `table`.
InsertRecord(table) ==
    /\ records' = [records EXCEPT ![table] = @ \cup {recordId[table]}]
    /\ recordId' = [recordId EXCEPT ![table] = @ + 1]
    /\ assigned' = [assigned EXCEPT ![table] = @ \cup {recordId[table]}]

\* The server starts: storage.ts calls dbStorage.seedData(), which runs up to
\* its first await.
StartSeed ==
    /\ seed.pc = "idle"
    /\ seed.run < MaxSeedRuns
    /\ seed' = [SeedIdle(seed.run + 1) EXCEPT !.pc = "getSites"]
    /\ SeedFrame
    /\ UNCHANGED <<materials, materialId, initialQuantity, records, recordId,
                   assigned>>

\* SeedGetSites that takes the table for empty whatever it holds.
SeedGetSites_Unguarded ==
    /\ seed.pc = "getSites"
    /\ seed' = [seed EXCEPT !.existingSites = 0, !.pc = "createSite"]
    /\ SeedFrame
    /\ UNCHANGED <<materials, materialId, initialQuantity, records, recordId,
                   assigned>>

\* const existingSites = await this.getSites();
\* if (existingSites.length === 0) { ... }
SeedGetSites ==
    /\ seed.pc = "getSites"
    /\ seed' = [seed EXCEPT
                  !.existingSites = Cardinality(records["sites"]),
                  !.pc = IF records["sites"] = {} THEN "createSite"
                         ELSE "getUsers"]
    /\ SeedFrame
    /\ UNCHANGED <<materials, materialId, initialQuantity, records, recordId,
                   assigned>>

\* const site = await this.createSite(dhakaSite);
SeedCreateSite ==
    /\ seed.pc = "createSite"
    /\ InsertRecord("sites")
    /\ seed' = [seed EXCEPT !.site = recordId["sites"],
                            !.pc = "createMaterial", !.i = 1]
    /\ SeedFrame
    /\ UNCHANGED <<materials, materialId, initialQuantity>>

\* for (const material of materials) await this.createMaterial(material);
SeedCreateMaterial ==
    /\ seed.pc = "createMaterial"
    /\ materials' = createMaterial(materialId,
                      Spread([siteId |-> seed.site, name |-> "",
                              category |-> "", unit |-> "", quantity |-> 0,
                              minStockLevel |-> 0], SeedMaterials[seed.i]), now)
    /\ materialId' = materialId + 1
    /\ initialQuantity' =
         [i \in DOMAIN initialQuantity \cup {materialId} |->
            IF i = materialId THEN materials'[materialId].quantity
            ELSE initialQuantity[i]]
    /\ seed' = IF seed.i < Len(SeedMaterials)
               THEN [seed EXCEPT !.i = @ + 1]
               ELSE [seed EXCEPT !.pc = "createWorker", !.i = 1]
    /\ SeedFrame
    /\ UNCHANGED <<records, recordId, assigned>>

\* for (const worker of workers) await this.createWorker(worker);
SeedCreateWorker ==
    /\ seed.pc = "createWorker"
    /\ InsertRecord("workers")
    /\ seed' = IF seed.i < SeedWorkers
               THEN [seed EXCEPT !.i = @ + 1]
               ELSE [seed EXCEPT !.pc = "createExpense", !.i = 1]
    /\ SeedFrame
    /\ UNCHANGED <<materials, materialId, initialQuantity>>

\* for (const expense of expenses) await this.createExpense(expense);
SeedCreateExpense ==
    /\ seed.pc = "createExpense"
    /\ InsertRecord("expenses")
    /\ seed' = IF seed.i < SeedExpenses
               THEN [seed EXCEPT !.i = @ + 1]
               ELSE [seed EXCEPT !.pc = "getUsers", !.i = 0]
    /\ SeedFrame
    /\ UNCHANGED <<materials, materialId, initialQuantity>>

\* const existingUsers = await db.select().from(users);
\* if (existingUsers.length === 0) { ... }; without a user to create the call
\* returns.
SeedGetUsers ==
    /\ seed.pc = "getUsers"
    /\ seed' = IF records["users"] = {}
               THEN [seed EXCEPT !.pc = "createUser"]
               ELSE SeedIdle(seed.run)
    /\ SeedFrame
    /\ UNCHANGED <<materials, materialId, initialQuantity, records, recordId,
                   assigned>>

\* await this.createUser({username: "admin", ...}), and the call returns.
SeedCreateUser ==
    /\ seed.pc = "createUser"
    /\ InsertRecord("users")
    /\ seed' = SeedIdle(seed.run)
    /\ SeedFrame
    /\ UNCHANGED <<materials, materialId, initialQuantity>>

\* POST /api/sites and DELETE /api/sites/:id before the first server start
\* that is followed here.
PostSiteBeforeStart ==
    /\ seed = SeedIdle(0)
    /\ PostRecord("sites")

DeleteSiteBeforeStart(id) ==
    /\ seed = SeedIdle(0)
    /\ DeleteRecord("sites", id)

\* The tables the server finds when it starts are what requests on the sites
\* left; then the server starts MaxSeedRuns times, each seedData call running
\* to its end with no request in between.
NextSeed ==
    \/ PostSiteBeforeStart
    \/ \E id \in RecordIds : DeleteSiteBeforeStart(id)
    \/ StartSeed
    \/ SeedGetSites
    \/ SeedCreateSite
    \/ SeedCreateMaterial
    \/ SeedCreateWorker
    \/ SeedCreateExpense
    \/ SeedGetUsers
    \/ SeedCreateUser

SpecSeed == Init /\ [][NextSeed]_vars


\* ------------------------------------------------------- the attendance form
\* createInsertSchema(attendance).omit({id}): present has a default,
\* hoursWorked and notes are nullable.
insertAttendanceSchema ==
    [shape |-> [workerId |-> "number", siteId |-> "number", date |-> "string",
                present |-> "boolean", hoursWorked |-> "number",
                notes |-> "string"],
     required |-> {"workerId", "siteId", "date"}]

\* DatabaseStorage.createAttendance(attendance): inside the method the name
\* `attendance` is its parameter, which hides the imported table, so
\* db.insert(attendance).values(attendance) is called on the request data
\* and throws before a statement reaches the database.  `rows` is the table
\* after the call.
createAttendance(attendance) ==
    [throws |-> TRUE, rows |-> records["attendance"]]

\* apiRequest rejects when the response is not a success, which ends the
\* loop of the mutation.
apiRequestRejects(status) == status \notin 200 .. 299

\* The site the form is opened for, the date it shows, and the hours a user
\* may type instead of the initial 8.
FormSite == 1
FormDate == "2026-11-05T00:00:00.000Z"
AttendanceHours == {4}

RECURSIVE Entries(_)
\* Object.entries(attendanceRecords): integer keys come in ascending order.
Entries(ids) ==
    IF ids = {} THEN <<>>
    ELSE LET first == CHOOSE w \in ids : \A v \in ids : w <= v
         IN  <<first>> \o Entries(ids \ {first})

\* The request body of one record, as JSON.stringify sends it.
AttendanceJson(record) ==
    [workerId |-> JsonNumber(record.workerId),
     siteId |-> JsonNumber(record.siteId),
     date |-> JsonString(record.date),
     present |-> JsonBoolean(record.present),
     hoursWorked |-> JsonNumber(record.hoursWorked),
     notes |-> JsonString(record.notes)]

\* No step of the browser is answered by the server or touches its tables.
BrowserFrame ==
    /\ response' = NoResponse
    /\ UNCHANGED <<storeVars, handlerVars, now, records, recordId, assigned,
                   view, seed, initialQuantity, applied>>

\* POST /api/workers before the form is opened.
PostWorkerBeforeOpen ==
    /\ form = FormClosed
    /\ PostRecord("workers")

\* The form is opened, its workers query returns and the effect gives every
\* worker the record {present: true, hours: 8, notes: ""}.
OpenAttendanceForm ==
    /\ form = FormClosed
    /\ form' = [form EXCEPT
                  !.open = TRUE,
                  !.attendanceRecords =
                      [w \in records["workers"] |->
                          [present |-> TRUE, hours |-> 8, notes |-> ""]]]
    /\ BrowserFrame

handlePresentChange(workerId, present) ==
    /\ form.open
    /\ workerId \in DOMAIN form.attendanceRecords
    /\ form' = [form EXCEPT !.attendanceRecords[workerId].present = present]
    /\ BrowserFrame

\* The hours input is rendered for the workers marked present.
handleHoursChange(workerId, hours) ==
    /\ form.open
    /\ workerId \in DOMAIN form.attendanceRecords
    /\ form.attendanceRecords[workerId].present
    /\ form' = [form EXCEPT !.attendanceRecords[workerId].hours = hours]
    /\ BrowserFrame

\* The submit button, enabled while no mutation is pending and there is a
\* worker: handleSubmit builds the records and mutationFn sends the first.
handleSubmit ==
    LET ids == Entries(DOMAIN form.attendanceRecords)
        values == [j \in 1 .. Len(ids) |->
                     LET record == form.attendanceRecords[ids[j]]
                     IN  [workerId |-> ids[j], siteId |-> FormSite,
                          date |-> FormDate, present |-> record.present,
                          hoursWorked |-> IF record.present THEN record.hours
                                          ELSE 0,
                          notes |-> record.notes]]
    IN  /\ form.open
        /\ form.status # "pending"
        /\ DOMAIN form.attendanceRecords # {}
        /\ form' = [form EXCEPT
                      !.status = "pending", !.values = values, !.i = 1,
                      !.before = Cardinality(records["attendance"]),
                      !.request = AttendanceJson(values[1]),
                      !.reply = 0, !.toast = "none"]
        /\ BrowserFrame

\* POST /api/attendance on the request in flight.
PostAttendance ==
    LET parseResult == safeParse(insertAttendanceSchema, form.request)
        result == createAttendance(parseResult.data)
        status == IF ~parseResult.success THEN 400
                  ELSE IF result.throws THEN 500 ELSE 201
    IN  /\ form.request # Undefined
        /\ IF status = 201
           THEN InsertRecord("attendance")
           ELSE UNCHANGED <<records, recordId, assigned>>
        /\ form' = [form EXCEPT !.request = Undefined, !.reply = status]
        /\ response' = [route |-> "POST /api/attendance", status |-> status,
                        body |-> Undefined]
        /\ UNCHANGED <<storeVars, handlerVars, now, view, seed,
                       initialQuantity, applied>>

\* ReceiveResponse that goes on with the next record whatever the answer.
ReceiveResponse_ContinueOnError ==
    /\ form.status = "pending"
    /\ form.request = Undefined
    /\ form.reply # 0
    /\ form' = IF form.i < Len(form.values)
               THEN [form EXCEPT !.i = @ + 1, !.reply = 0,
                                 !.request = AttendanceJson(form.values[form.i + 1])]
               ELSE IF apiRequestRejects(form.reply)
               THEN [form EXCEPT !.status = "error", !.toast = "destructive"]
               ELSE [form EXCEPT !.status = "success", !.toast = "default",
                                 !.open = FALSE]
    /\ BrowserFrame

\* The response arrives: `await apiRequest(...)` throws, which fails the
\* mutation (onError: a destructive toast), or returns, and the loop sends
\* the next record or ends (onSuccess: a toast, and onClose()).
ReceiveResponse ==
    /\ form.status = "pending"
    /\ form.request = Undefined
    /\ form.reply # 0
    /\ form' = IF apiRequestRejects(form.reply)
               THEN [form EXCEPT !.status = "error", !.toast = "destructive"]
               ELSE IF form.i < Len(form.values)
               THEN [form EXCEPT !.i = @ + 1, !.reply = 0,
                                 !.request = AttendanceJson(form.values[form.i + 1])]
               ELSE [form EXCEPT !.status = "success", !.toast = "default",
                                 !.open = FALSE]
    /\ BrowserFrame

NextAttendance ==
    \/ PostWorkerBeforeOpen
    \/ OpenAttendanceForm
    \/ \E workerId \in RecordIds, present \in BOOLEAN :
          handlePresentChange(workerId, present)
    \/ \E workerId \in RecordIds, hours \in AttendanceHours :
          handleHoursChange(workerId, hours)
    \/ handleSubmit
    \/ PostAttendance
    \/ ReceiveResponse

SpecAttendance == Init /\ [][NextAttendance]_vars


\* =================================================================== claims
TransactionRoute == "POST /api/material-transactions"

\* The step is handler h's INSERT.
Inserts(h) == pc[h] = "idle" /\ pc'[h] = "getMaterial"
\* The step is handler h's getMaterial.
Reads(h) == pc[h] = "getMaterial" /\ pc'[h] # "getMaterial"
\* The step is handler h's updateMaterial.
WritesBack(h) == pc[h] = "updateMaterial" /\ pc'[h] = "idle"
\* Nothing touched the row between h's read and now: the call runs as if alone.
RowAsRead(h) ==
    /\ material[h].id \in DOMAIN materials
    /\ materials[material[h].id] = material[h]
\* h's request is one the ledger rule is specified for.
LedgerRequest(h) ==
    /\ transaction[h].quantity > 0
    /\ transaction[h].transactionType \in {"added", "used"}
\* h's row is in the ledger.
Persisted(h) ==
    /\ newTransaction[h].id \in DOMAIN materialTransactions
    /\ materialTransactions[newTransaction[h].id] = newTransaction[h]
\* The latest step answered 201 to a transaction request.
Answered201 == response.route = TransactionRoute /\ response.status = 201

\* C1: a createMaterialTransaction call with quantity > 0 and type 'added' or
\* 'used' that runs on a Material whose quantity is >= 0 leaves the quantity
\* >= 0 after each of its steps: the insert and the read do not touch the
\* Material, the write-back stores a value >= 0.
C1_QuantityStaysNonNegative ==
    [][\A h \in Handlers :
         /\ (Inserts(h) \/ Reads(h)) => materials' = materials
         /\ (WritesBack(h) /\ RowAsRead(h) /\ LedgerRequest(h)
                /\ material[h].quantity >= 0)
              => materials'[material[h].id].quantity >= 0]_vars

\* A 'used' request with quantity > 0 was just answered and its Material is at 0.
C1_Witness ==
    /\ Answered201
    /\ response.body.transactionType = "used"
    /\ response.body.quantity > 0
    /\ response.body.materialId \in DOMAIN materials
    /\ materials[response.body.materialId].quantity = 0

C3_OverUseAbsorbed ==
    [][\A h \in Handlers :
         (WritesBack(h) /\ RowAsRead(h)
            /\ transaction[h].transactionType = "used"
            /\ transaction[h].quantity > materials[material[h].id].quantity)
           => /\ response'.route = TransactionRoute
              /\ response'.status = 201
              /\ response'.body.quantity = transaction[h].quantity
              /\ materialTransactions'[response'.body.id] = response'.body
              /\ materials'[material[h].id].quantity = 0]_vars

\* The only request so far, 'used' 5 against a Material created with 3, was
\* answered 201: the Material is at 0 and the ledger shows 5.
C3_Witness ==
    /\ Answered201
    /\ materialTransactionId = 2
    /\ materialTransactions[1].transactionType = "used"
    /\ materialTransactions[1].quantity = 5
    /\ materialTransactions[1].materialId \in DOMAIN materials
    /\ initialQuantity[materialTransactions[1].materialId] = 3
    /\ materials[materialTransactions[1].materialId].quantity = 0

\* C4: a request whose materialId names no Material is recorded in the
\* ledger, creates and modifies no Material, and is answered 201 with its row.
C4_MissingMaterial ==
    [][\A h \in Handlers :
         /\ Inserts(h) => (materials' = materials /\ Persisted(h)')
         /\ (Reads(h) /\ transaction[h].materialId \notin DOMAIN materials)
              => /\ pc'[h] = "idle"
                 /\ materials' = materials
                 /\ materialTransactions' = materialTransactions
                 /\ Persisted(h)
                 /\ response' = [route |-> TransactionRoute, status |-> 201,
                                 body |-> newTransaction[h]]]_vars

\* A request naming no Material was just answered 201 and its row is in the ledger.
C4_Witness ==
    /\ Answered201
    /\ response.body.materialId \notin DOMAIN materials
    /\ response.body.id \in DOMAIN materialTransactions
    /\ materialTransactions[response.body.id] = response.body

\* Both requests of the round trip were answered.
RoundTripDone == materialTransactionId = 3 /\ pc[1] = "idle"

\* C5 as stated: 'added' q then 'used' q, 0 < q <= c, leaves the quantity at c.
C5_RoundTripExact ==
    RoundTripDone => materials[1].quantity = initialQuantity[1]

\* C5: 'added' q then 'used' q, 0 < q <= c, leaves the quantity at c when
\* c + q <= 2^24, the range in which the real column holds every integer.
C5_RoundTripWithinPrecision ==
    (RoundTripDone /\ initialQuantity[1] + materialTransactions[1].quantity <= Big)
        => materials[1].quantity = initialQuantity[1]

\* The round trip of q = MaxRoundTrip on the largest c that keeps c + q exact.
C5_Witness ==
    /\ RoundTripDone
    /\ materialTransactions[1].transactionType = "added"
    /\ materialTransactions[2].transactionType = "used"
    /\ materialTransactions[2].quantity = materialTransactions[1].quantity
    /\ initialQuantity[1] + materialTransactions[1].quantity = Big
    /\ materials[1].quantity = initialQuantity[1]

\* The ledger rule in the words of the specification.
ClaimedApply(c, t) ==
    IF t.transactionType = "added" THEN c + t.quantity
    ELSE IF t.transactionType = "used"
    THEN (IF c - t.quantity > 0 THEN c - t.quantity ELSE 0)
    ELSE c

RECURSIVE RunningTotal(_, _)
\* The Material's initial quantity with its ledger rows of id <= n applied in
\* id order.
RunningTotal(m, n) ==
    IF n = 0 THEN initialQuantity[m]
    ELSE LET before == RunningTotal(m, n - 1)
         IN  IF n \in DOMAIN materialTransactions
                  /\ materialTransactions[n].materialId = m
             THEN Fround(ClaimedApply(before, materialTransactions[n]))
             ELSE before

\* C6 as stated: every Material's stored quantity is the running total of its
\* ledger rows.
C6_QuantityIsRunningTotal ==
    \A m \in DOMAIN materials :
        materials[m].quantity = RunningTotal(m, materialTransactionId - 1)

\* C7 as stated: no state shows a persisted ledger row of a call whose
\* adjustment of the owning Material is still to come.
C7_AdjustedAtomically ==
    \A h \in Handlers :
        ~ /\ pc[h] \in {"getMaterial", "updateMaterial"}
          /\ Persisted(h)
          /\ LedgerRequest(h)
          /\ transaction[h].materialId \in DOMAIN materials

\* C8: the write-back is last-write-wins.  When another write changed the
\* row's quantity between a call's read and its write, the call still stores
\* the quantity computed from what it read, and the other write is lost.
C8_LastWriteWins ==
    [][\A h \in Handlers :
         (WritesBack(h) /\ LedgerRequest(h)
            /\ material[h].id \in DOMAIN materials
            /\ materials[material[h].id].quantity # material[h].quantity)
           => materials'[material[h].id].quantity =
                Fround(ClaimedApply(material[h].quantity, transaction[h]))]_vars

\* Two calls on one Material are done, both rows are in the ledger, both calls
\* wrote the Material, and the quantity is the second call applied to the
\* initial quantity: neither order of the two calls run one after the other
\* gives it.
C8_Witness ==
    /\ \A h \in Handlers : pc[h] = "idle"
    /\ DOMAIN materialTransactions = {1, 2}
    /\ applied = {1, 2}
    /\ \A i \in {1, 2} : /\ materialTransactions[i].quantity > 0
                         /\ materialTransactions[i].transactionType = "added"
    /\ \E m \in DOMAIN materials :
         LET t1 == materialTransactions[1]
             t2 == materialTransactions[2]
             c == initialQuantity[m]
         IN  /\ t1.materialId = m /\ t2.materialId = m
             /\ c = 3
             /\ materials[m].quantity = Fround(ClaimedApply(c, t2))
             /\ materials[m].quantity #
                  Fround(ClaimedApply(Fround(ClaimedApply(c, t1)), t2))
             /\ materials[m].quantity #
                  Fround(ClaimedApply(Fround(ClaimedApply(c, t2)), t1))

\* C9: the ledger only grows, and no step changes a row that is in it.
C9_LedgerAppendOnly ==
    [][\A i \in DOMAIN materialTransactions :
         /\ i \in DOMAIN materialTransactions'
         /\ materialTransactions'[i] = materialTransactions[i]]_vars

\* Two rows are in the ledger and a PUT just rewrote a Material.
C9_Witness ==
    /\ DOMAIN materialTransactions = {1, 2}
    /\ response.route = "PUT /api/materials/:id"
    /\ response.status = 200

DeleteRoute == "DELETE /api/materials/:id"

\* C10: a DELETE of a Material removes at most that one Material, changes no
\* other Material and no ledger row, and both ledger queries return what they
\* returned before.
C10_DeleteKeepsLedger ==
    [][response'.route = DeleteRoute =>
         /\ materialTransactions' = materialTransactions
         /\ \A m \in MaterialIds :
              getMaterialTransactionsByMaterial(m)' =
                  getMaterialTransactionsByMaterial(m)
         /\ \A site \in SiteIds :
              getMaterialTransactions(site)' = getMaterialTransactions(site)
         /\ \A m \in DOMAIN materials' :
              m \in DOMAIN materials /\ materials'[m] = materials[m]
         /\ Cardinality(DOMAIN materials \ DOMAIN materials') =
              (IF response'.status = 204 THEN 1 ELSE 0)]_vars

\* The only Material ever created was just deleted, and a ledger row that
\* references it is still returned by both queries.
C10_Witness ==
    /\ response.route = DeleteRoute
    /\ response.status = 204
    /\ materialId = 2
    /\ materials = <<>>
    /\ \E i \in DOMAIN materialTransactions :
         /\ materialTransactions[i].materialId = 1
         /\ materialTransactions[i] \in getMaterialTransactionsByMaterial(1)
         /\ materialTransactions[i] \in
              getMaterialTransactions(materialTransactions[i].siteId)

\* C11 as stated: in every state the server API reaches, every stored
\* Material has quantity >= 0.
C11_StoredQuantityNonNegative ==
    \A m \in DOMAIN materials : materials[m].quantity >= 0

\* C12 as stated: the server records a transaction only when its quantity is
\* > 0 and its type is 'added' or 'used' (any other body is answered 400 and
\* changes nothing), so every row of the ledger has both.
C12_LedgerHoldsOnlyValidRows ==
    \A i \in DOMAIN materialTransactions :
        /\ materialTransactions[i].quantity > 0
        /\ materialTransactions[i].transactionType \in {"added", "used"}

\* C13 as stated: every operation that mutates an existing Material stamps it
\* with the time of the operation, so the lastUpdated of a Material never
\* decreases.
C13_LastUpdatedNeverDecreases ==
    [][\A m \in DOMAIN materials \cap DOMAIN materials' :
         materials'[m].lastUpdated >= materials[m].lastUpdated]_vars

\* The latest render was MaterialList.
ListRendered == view.component = "MaterialList"

\* quantity / minStockLevel < 0.4, the division read as JavaScript's.
RatioBelowTwoFifths(m) ==
    IF m.minStockLevel > 0 THEN 10 * m.quantity < 4 * m.minStockLevel
    ELSE IF m.minStockLevel < 0 THEN 10 * m.quantity > 4 * m.minStockLevel
    ELSE m.quantity < 0

\* C14 as stated: every Material gets exactly one label, 'sufficient' if and
\* only if quantity >= minStockLevel (minStockLevel = 0 included) and
\* 'critical' if and only if quantity / minStockLevel < 0.4.
C14_ClassifiedAsStated ==
    ListRendered =>
        \A r \in view.rows :
            /\ r.label \in {"sufficient", "low", "critical"}
            /\ r.label = "sufficient"
                  <=> r.material.quantity >= r.material.minStockLevel
            /\ r.label = "critical" <=> RatioBelowTwoFifths(r.material)

\* 0 < quantity / minStockLevel < 1, the division read as JavaScript's.
RatioBetweenZeroAndOne(m) ==
    IF m.minStockLevel > 0 THEN 0 < m.quantity /\ m.quantity < m.minStockLevel
    ELSE IF m.minStockLevel < 0
    THEN 0 > m.quantity /\ m.quantity > m.minStockLevel
    ELSE FALSE

\* 0.4 <= quantity / minStockLevel < 1, the division read as JavaScript's.
RatioFromTwoFifthsToOne(m) ==
    IF m.minStockLevel > 0
    THEN 4 * m.minStockLevel <= 10 * m.quantity /\ m.quantity < m.minStockLevel
    ELSE IF m.minStockLevel < 0
    THEN 4 * m.minStockLevel >= 10 * m.quantity /\ m.quantity > m.minStockLevel
    ELSE FALSE

\* C15 as stated: a Material is labelled 'low' exactly when
\* 0 < quantity / minStockLevel < 1.0.
C15_LowAboveZero ==
    ListRendered =>
        \A r \in view.rows :
            r.label = "low" <=> RatioBetweenZeroAndOne(r.material)

\* C15: a Material is labelled 'low' exactly when
\* 0.4 <= quantity / minStockLevel < 1.0: from 40% of the threshold on, and
\* below it.
C15_LowFromTwoFifths ==
    ListRendered =>
        \A r \in view.rows :
            r.label = "low" <=> RatioFromTwoFifthsToOne(r.material)

\* The list shows a Material at exactly 40% of its threshold as 'low' and one
\* at 30% of its threshold as 'critical'.
C15_Witness ==
    /\ ListRendered
    /\ \E r \in view.rows :
          /\ r.material.quantity = 40 /\ r.material.minStockLevel = 100
          /\ r.label = "low"
    /\ \E r \in view.rows :
          /\ r.material.quantity = 15 /\ r.material.minStockLevel = 50
          /\ r.label = "critical"

LowStockRoute == "GET /api/sites/:siteId/materials/low-stock"

\* C16: GET /api/sites/:siteId/materials/low-stock returns exactly the stored
\* Materials of the requested site whose quantity is strictly below their
\* minStockLevel, never one whose quantity equals it, and changes no state.
C16_LowStockExact ==
    [][response'.route = LowStockRoute =>
         /\ response'.status = 200
         /\ \A m \in DOMAIN materials :
              materials[m] \in response'.body
                <=> /\ materials[m].siteId = response'.siteId
                    /\ materials[m].quantity < materials[m].minStockLevel
         /\ \A r \in response'.body :
              /\ \E m \in DOMAIN materials : materials[m] = r
              /\ r.quantity # r.minStockLevel
         /\ UNCHANGED <<storeVars, handlerVars, now, records, recordId, view>>]_vars

\* The query just returned one of the two Materials of the site; the other,
\* whose quantity equals its minStockLevel, was left out.
C16_Witness ==
    /\ response.route = LowStockRoute
    /\ Cardinality(response.body) = 1
    /\ \A m \in DOMAIN materials : materials[m].siteId = response.siteId
    /\ \E m \in DOMAIN materials :
          /\ materials[m].quantity = materials[m].minStockLevel
          /\ materials[m] \notin response.body

\* C17: on every table with a DELETE route, DELETE of an id that is in the
\* table answers 204 and removes that row and no other; DELETE of an id that
\* is not in the table answers 404 and leaves every table as it was.  A row
\* that was deleted is not in the table, so a second DELETE answers 404.
C17_DeleteAnswers ==
    [][/\ \A id \in MaterialIds :
            DeleteMaterial(id) =>
              /\ records' = records
              /\ materialTransactions' = materialTransactions
              /\ IF id \in DOMAIN materials
                 THEN /\ response'.status = 204
                      /\ DOMAIN materials' = DOMAIN materials \ {id}
                      /\ \A m \in DOMAIN materials' :
                            materials'[m] = materials[m]
                 ELSE /\ response'.status = 404
                      /\ materials' = materials
       /\ response'.route = RecordDeleteRoute =>
            /\ materials' = materials
            /\ materialTransactions' = materialTransactions
            /\ \A k \in Kinds \ {response'.kind} : records'[k] = records[k]
            /\ IF response'.id \in records[response'.kind]
               THEN /\ response'.status = 204
                    /\ records'[response'.kind] =
                         records[response'.kind] \ {response'.id}
               ELSE /\ response'.status = 404
                    /\ records' = records]_vars

\* A row that was created and deleted was just deleted again, which was
\* answered 404; the other row of its table is still there.
C17_Witness ==
    /\ response.route = RecordDeleteRoute
    /\ response.status = 404
    /\ response.id \in assigned[response.kind]
    /\ records[response.kind] = assigned[response.kind] \ {response.id}
    /\ records[response.kind] # {}

PutRoute == "PUT /api/materials/:id"

C19_IdsNeverReused ==
    [][/\ \A k \in Kinds : \A id \in records'[k] \ records[k] :
            \A j \in assigned[k] : id > j
       /\ \A id \in DOMAIN materials' \ DOMAIN materials :
            \A j \in DOMAIN initialQuantity : id > j
       /\ \A id \in DOMAIN materials' : materials'[id].id = id]_vars

\* A row was just created with id 2 in a table whose row 1 had been deleted
\* before: the table holds row 2 only.
C19_Witness ==
    /\ response.route = PostRoute
    /\ response.status = 201
    /\ response.body.id = 2
    /\ assigned[response.kind] = {1, 2}
    /\ records[response.kind] = {2}

\* The columns createMaterialTransaction does not write.
FrameColumns == {"id", "siteId", "name", "category", "unit", "minStockLevel"}

\* C20: no step of createMaterialTransaction creates or removes a Material;
\* its insert and its read change no Material, and its write-back changes at
\* most the Material whose id is the transaction's materialId, of which it
\* leaves id, siteId, name, category, unit and minStockLevel as they were.
C20_OnlyQuantityAndLastUpdated ==
    [][\A h \in Handlers :
         /\ (Inserts(h) \/ Reads(h)) => materials' = materials
         /\ WritesBack(h) =>
              /\ DOMAIN materials' = DOMAIN materials
              /\ \A m \in DOMAIN materials :
                   IF m = transaction[h].materialId
                   THEN \A f \in FrameColumns :
                          materials'[m][f] = materials[m][f]
                   ELSE materials'[m] = materials[m]]_vars

\* The only request so far, 'added' 5 to Material 1, was just answered: the
\* quantity of Material 1 went from 3 to 8, its other columns and Material 2
\* are as they were created.
C20_Witness ==
    /\ Answered201
    /\ materialTransactionId = 2
    /\ applied = {1}
    /\ DOMAIN materials = {1, 2}
    /\ initialQuantity[1] = 3
    /\ materials[1].quantity = 8
    /\ materials[1].name = "Cement (OPC)"
    /\ materials[1].minStockLevel = 50
    /\ materials[2].quantity = initialQuantity[2]

\* C21: when the Material lookup or the quantity write-back of a request
\* fails after its row was inserted, the request is answered 500, the row
\* stays in the ledger as inserted, and no Material changes: the quantity is
\* not adjusted and nothing undoes the insert.
C21_FailureKeepsInsert ==
    [][\A h \in Handlers :
         (pc[h] \in {"getMaterial", "updateMaterial"}
            /\ pc'[h] = "idle" /\ response'.status = 500)
           => /\ response'.route = TransactionRoute
              /\ Persisted(h)
              /\ materialTransactions' = materialTransactions
              /\ materials' = materials
              /\ applied' = applied]_vars

\* The write-back of the only request so far, 'added' 5 to Material 1, just
\* failed: the answer is 500, the row is in the ledger and Material 1 is as
\* it was created.
C21_Witness ==
    /\ response.route = TransactionRoute
    /\ response.status = 500
    /\ materialTransactionId = 2
    /\ DOMAIN materialTransactions = {1}
    /\ materialTransactions[1].transactionType = "added"
    /\ materialTransactions[1].materialId = 1
    /\ 1 \in DOMAIN materials
    /\ materials[1].quantity = initialQuantity[1]
    /\ applied = {}
    /\ \A h \in Handlers : pc[h] = "idle"

\* The latest render was LowStockAlert.
AlertRendered == view.component = "LowStockAlert"

\* C22 as stated: every Material the low-stock route returned is labelled
\* 'critical' by the dashboard alert exactly when getStockStatus of the
\* materials list labels it 'critical'.
C22_AlertAgreesWithList ==
    AlertRendered =>
        \A r \in view.rows :
            r.label = "critical" <=> getStockStatus(r.material) = "critical"


\* C23 as stated: for every Material, the low-stock query of the server
\* returns it if and only if the 'low' stock filter of the list matches it,
\* if and only if getStockStatus labels it 'low' or 'critical'; and it matches
\* exactly one of the 'low' and 'sufficient' filters.
C23_ThreeTestsAgree ==
    (ListRendered /\ view.stockFilter = "all") =>
        \A r \in view.rows :
            LET returned == r.material \in getLowStockMaterials(view.siteId)
                filtered == matchesStock(r.material, "low")
                labelled == r.label \in {"low", "critical"}
            IN  /\ returned <=> filtered
                /\ filtered <=> labelled
                /\ filtered # matchesStock(r.material, "sufficient")


\* The quantity a Material of quantity c holds after the calls `first` and
\* `second` ran on it one after the other.
AppliedInOrder(c, first, second) ==
    Fround(NewQuantity(Fround(NewQuantity(c, first)), second))

\* Both calls of the run were answered.
OrderDone == materialTransactionId = 3 /\ pc[1] = "idle"

\* C24 as stated: two transactions of the same type applied one after the
\* other leave the quantity the other order would have left; an 'added' and
\* a 'used' transaction whose 'used' quantity exceeds the stock leave a
\* quantity that differs from the other order's.
C24_SameTypeCommutes ==
    OrderDone =>
        LET c == initialQuantity[1]
            first == materialTransactions[1]
            second == materialTransactions[2]
            used == IF first.transactionType = "used" THEN first ELSE second
        IN  /\ materials[1].quantity = AppliedInOrder(c, first, second)
            /\ first.transactionType = second.transactionType
                 => materials[1].quantity = AppliedInOrder(c, second, first)
            /\ (first.transactionType # second.transactionType
                  /\ used.quantity > c)
                 => materials[1].quantity # AppliedInOrder(c, second, first)


\* h's request has a type that is neither 'added' nor 'used'.
OtherType(h) == transaction[h].transactionType \notin {"added", "used"}

C26_TransactionSiteIsMaterialSite ==
    \A i \in DOMAIN materialTransactions :
        materialTransactions[i].materialId \in DOMAIN materials
          => materialTransactions[i].siteId =
               materials[materialTransactions[i].materialId].siteId


\* The tables seedData writes.
seedTables == <<materials, materialId, records, recordId>>

\* C27: a seedData call creates a Site only when the sites table is empty,
\* and Materials, workers and expenses only in a call that found it empty; it
\* creates a user only when the users table is empty; and no step of a call
\* that starts after an earlier call has returned changes any table.
C27_SeedIdempotent ==
    [][seed.pc # "idle" =>
         /\ records'["sites"] # records["sites"] => records["sites"] = {}
         /\ records'["users"] # records["users"] => records["users"] = {}
         /\ (materials' # materials
               \/ records'["workers"] # records["workers"]
               \/ records'["expenses"] # records["expenses"])
              => seed.existingSites = 0 /\ seed.site \in records["sites"]
         /\ seed.run >= 2 => UNCHANGED seedTables]_vars

\* The second seedData call has returned on a database that was empty before
\* the first: there is one site with the three Materials, two workers, two
\* expenses and one user of the first call.
C27_Witness ==
    /\ seed = SeedIdle(2)
    /\ records["sites"] = {1}
    /\ DOMAIN materials = {1, 2, 3}
    /\ materials[1].quantity = 15 /\ materials[1].siteId = 1
    /\ materials[3].name = "Steel Rods (10mm)"
    /\ records["workers"] = {1, 2}
    /\ records["expenses"] = {1, 2}
    /\ records["users"] = {1}
    /\ recordId["users"] = 2


====
